---------------------------- MODULE Spec2Model ----------------------------
(***************************************************************************)
(* A model of the Sichuan Mahjong engine of PKQ1688/AI-MJ: the tile and    *)
(* meld value types (src/src/core), the rule engine                        *)
(* (src/src/engine/rule_engine.py) and the turn state machine              *)
(* (src/src/engine/game.py) driven by the players' decision source         *)
(* (src/src/player/llm_player.py).                                         *)
(*                                                                         *)
(* Conventions.  Python's None is the string "None" for a suit, NoTile for *)
(* a tile and NoAction for the last-action record.  Dictionary keys        *)
(* str(i) of game_state are the integers i.  A Chinese character is        *)
(* written as its pinyin ("wu" for the rank name of 5, "wan" for the suit  *)
(* name), and a Python string is the sequence of its characters, so        *)
(* str(Tile(WAN, 5)) is <<"wu", "wan">> and "" is <<>>.                    *)
(***************************************************************************)
EXTENDS Integers, Sequences, FiniteSets, TLC

VARIABLES
    pc,                 \* position of Game.run between two awaits
    phase,              \* Game.phase
    wall,               \* Game.wall
    current_player_id,  \* Game.current_player_id
    round_number,       \* Game.round_number
    game_state,         \* Game.game_state, the snapshot dictionary
    winners,            \* Game.winners
    turn_count,         \* local turn_count of Game._playing_phase
    turn_action,        \* local action of _game_turn / _lack_selection_phase
    lack_index,         \* position of the for loop of _lack_selection_phase
    hand,               \* LLMPlayer.hand of each player
    melds,              \* LLMPlayer.melds of each player
    lack_suit,          \* LLMPlayer.lack_suit of each player
    wins,               \* LLMPlayer.wins of each player
    decisions_made,     \* LLMPlayer.decisions_made of each player
    answered,           \* requests the decision source has answered so far
    last_discarder,     \* history: the seat that discarded last_discard
    fn_pc,              \* rule-engine harness: "idle", "input" or "done"
    fn_hand,            \* rule-engine harness: the hand argument
    fn_melds,           \* rule-engine harness: the melds argument
    fn_win_tile,        \* rule-engine harness: the win_tile argument
    fn_lack,            \* rule-engine harness: the lack_suit argument
    fn_tile,            \* rule-engine harness: the tile of the action argument
    fn_arg,             \* harness: a further argument (a meld type, a tile string)
    fn_result           \* rule-engine harness: the value returned

gameVars == <<pc, phase, wall, current_player_id, round_number, game_state,
              winners, turn_count, turn_action, lack_index, hand, melds, lack_suit,
              wins, decisions_made, answered, last_discarder>>
fnVars == <<fn_pc, fn_hand, fn_melds, fn_win_tile, fn_lack, fn_tile,
            fn_arg, fn_result>>
vars == <<pc, phase, wall, current_player_id, round_number, game_state,
          winners, turn_count, turn_action, lack_index, hand, melds, lack_suit,
          wins, decisions_made, answered, last_discarder, fn_pc, fn_hand,
          fn_melds, fn_win_tile, fn_lack, fn_tile, fn_arg, fn_result>>

----------------------------------------------------------------------------
(* Constants of src/src/utils/constants.py and of the engine.              *)

HAND_SIZE == 13
TOTAL_TILES_PER_RANK == 4
NumRanks == 9
NumPlayers == 4
MeldsPerHand == 4
max_turns == 200

RANKS == 1..NumRanks
SUITS_LIST == <<"WAN", "TONG", "TIAO">>
Suits == {"WAN", "TONG", "TIAO"}
Players == 0..(NumPlayers - 1)

RANK_NAMES == <<"yi", "er", "san", "si", "wu", "liu", "qi", "ba", "jiu">>
SUIT_NAMES == [WAN |-> "wan", TONG |-> "tong", TIAO |-> "tiao"]

ActionTypes == {"DISCARD", "PONG", "GANG", "HU", "PASS", "LACK"}

(* Bounds of the model: how many requests the decision source answers (it  *)
(* fails on the others, and the players fall back to their defaults), up   *)
(* to which turn it answers, and how many denominations the rule-engine    *)
(* harness draws its hands from.                                           *)
MaxAnswers == 2
LiveTurns == 5
NumKinds == 5
MaxMeldLen == 5
MaxStrLen == 3

----------------------------------------------------------------------------
(* Tiles (src/src/core/tile.py).                                           *)

Tile(suit, rank) == [suit |-> suit, rank |-> rank]
NoTile == [suit |-> "None", rank |-> 0]
Tiles == {Tile(s, r) : s \in Suits, r \in RANKS}

TileStr(t) == <<RANK_NAMES[t.rank], SUIT_NAMES[t.suit]>>

(* A variant of Tile.from_string that reads the first two characters of a  *)
(* longer string.                                                          *)
FromStringPrefix(tile_str) ==
    IF Len(tile_str) < 2
    THEN [raised |-> TRUE, value |-> NoTile]
    ELSE LET rank_char == tile_str[1]
             suit_char == tile_str[2]
             ranks == {r \in RANKS : RANK_NAMES[r] = rank_char}
             suits == {i \in 1..Len(SUITS_LIST) :
                          SUIT_NAMES[SUITS_LIST[i]] = suit_char}
         IN  IF ranks = {} \/ suits = {}
             THEN [raised |-> TRUE, value |-> NoTile]
             ELSE [raised |-> FALSE,
                   value |-> Tile(SUITS_LIST[CHOOSE i \in suits :
                                                \A j \in suits : i <= j],
                                  CHOOSE r \in ranks : \A q \in ranks : r <= q)]

(* Tile.from_string: a string is a sequence of characters.  The rank is    *)
(* the first key of RANK_NAMES whose name is the first character, the suit *)
(* the first key of SUIT_NAMES whose name is the second; ValueError when   *)
(* the length is not 2 or a lookup finds nothing.                          *)
FromString(tile_str) ==
    IF Len(tile_str) # 2
    THEN [raised |-> TRUE, value |-> NoTile]
    ELSE LET rank_char == tile_str[1]
             suit_char == tile_str[2]
             ranks == {r \in RANKS : RANK_NAMES[r] = rank_char}
             suits == {i \in 1..Len(SUITS_LIST) :
                          SUIT_NAMES[SUITS_LIST[i]] = suit_char}
         IN  IF ranks = {} \/ suits = {}
             THEN [raised |-> TRUE, value |-> NoTile]
             ELSE [raised |-> FALSE,
                   value |-> Tile(SUITS_LIST[CHOOSE i \in suits :
                                                \A j \in suits : i <= j],
                                  CHOOSE r \in ranks : \A q \in ranks : r <= q)]

(* Tile.__eq__ and Tile.__lt__: equal suit and rank; first by suit in the  *)
(* order WAN < TONG < TIAO, then by rank.                                  *)
suit_order == [WAN |-> 0, TONG |-> 1, TIAO |-> 2]
TileEq(t1, t2) == t1.suit = t2.suit /\ t1.rank = t2.rank
(* A variant of Tile.__lt__ that compares the ranks first.                 *)
TileLtRankFirst(t1, t2) ==
    IF t1.rank # t2.rank
    THEN t1.rank < t2.rank
    ELSE suit_order[t1.suit] < suit_order[t2.suit]
TileLt(t1, t2) ==
    IF t1.suit # t2.suit
    THEN suit_order[t1.suit] < suit_order[t2.suit]
    ELSE t1.rank < t2.rank

(* sorted(hand): the tile at place i has fewer than i tiles of the hand    *)
(* below it and at least i tiles of the hand not above it.                 *)
Sorted(h) ==
    [i \in 1..Len(h) |->
        CHOOSE t \in {h[j] : j \in 1..Len(h)} :
            /\ Cardinality({j \in 1..Len(h) : TileLt(h[j], t)}) < i
            /\ i <= Cardinality({j \in 1..Len(h) : ~TileLt(t, h[j])})]

Meld(meld_type, tiles) == [meld_type |-> meld_type, tiles |-> tiles]
MeldTypes == {"PONG", "MING_GANG", "AN_GANG", "BU_GANG"}

(* A variant of Meld._validate that does not compare the tiles of a gang.  *)
MeldValidatesAnyQuad(meld_type, tiles) ==
    IF meld_type = "PONG"
    THEN Len(tiles) = 3 /\ \A i \in 1..Len(tiles) : TileEq(tiles[i], tiles[1])
    ELSE IF meld_type \in {"MING_GANG", "AN_GANG", "BU_GANG"}
         THEN Len(tiles) = 4
         ELSE TRUE

(* Meld._validate: TRUE when it returns, FALSE when it raises ValueError.  *)
MeldValidates(meld_type, tiles) ==
    IF meld_type = "PONG"
    THEN Len(tiles) = 3 /\ \A i \in 1..Len(tiles) : TileEq(tiles[i], tiles[1])
    ELSE IF meld_type \in {"MING_GANG", "AN_GANG", "BU_GANG"}
         THEN Len(tiles) = 4 /\ \A i \in 1..Len(tiles) : TileEq(tiles[i], tiles[1])
         ELSE TRUE

(* Meld.__init__: the meld built, or the ValueError of _validate.          *)
NoMeld == [meld_type |-> "None", tiles |-> <<>>]
NewMeld(meld_type, tiles) ==
    IF MeldValidates(meld_type, tiles)
    THEN [raised |-> FALSE, value |-> Meld(meld_type, tiles)]
    ELSE [raised |-> TRUE, value |-> NoMeld]

(* Meld.is_concealed *)
IsConcealed(meld) == meld.meld_type = "AN_GANG"

GetBaseTile(meld) == meld.tiles[1]

(* Python list helpers: x in xs, xs.count(x), xs.remove(x) (the first      *)
(* occurrence), xs.pop() (the last element).                               *)
Contains(xs, x) == \E i \in 1..Len(xs) : xs[i] = x
Count(xs, x) == Cardinality({i \in 1..Len(xs) : xs[i] = x})
FirstIndex(xs, x) == CHOOSE i \in 1..Len(xs) :
                        xs[i] = x /\ \A j \in 1..(i - 1) : xs[j] # x
RemoveFirst(xs, x) ==
    IF Contains(xs, x)
    THEN LET i == FirstIndex(xs, x)
         IN  SubSeq(xs, 1, i - 1) \o SubSeq(xs, i + 1, Len(xs))
    ELSE xs
Last(xs) == xs[Len(xs)]
Front(xs) == SubSeq(xs, 1, Len(xs) - 1)
Reverse(xs) == [i \in 1..Len(xs) |-> xs[Len(xs) + 1 - i]]

(* Actions (src/src/core/action.py).  Action._validate raises for a        *)
(* DISCARD without a tile and for a LACK without a suit.                   *)
Action(action_type, tile, suit) ==
    [action_type |-> action_type, tile |-> tile, suit |-> suit]
ActionValidates(a) ==
    /\ a.action_type = "DISCARD" => a.tile # NoTile
    /\ a.action_type = "LACK" => a.suit # "None"
PassAction == Action("PASS", NoTile, "None")
NoAction == [player_id |-> -1, action |-> "None", tile |-> <<>>]


----------------------------------------------------------------------------
(* The rule engine (src/src/engine/rule_engine.py).                        *)

(* list(Counter(hand).items()): the distinct tiles in the order of their   *)
(* first occurrence, each with its number of copies.                       *)
CounterItems(xs) ==
    LET first == SelectSeq([i \in 1..Len(xs) |-> i],
                           LAMBDA i : \A j \in 1..(i - 1) : xs[j] # xs[i])
    IN  [k \in 1..Len(first) |-> <<xs[first[k]], Count(xs, xs[first[k]])>>]

(* remaining_tiles of _try_form_melds: [tile] * count for every entry.     *)
RECURSIVE ExpandCounts(_)
ExpandCounts(tile_counts) ==
    IF tile_counts = <<>>
    THEN <<>>
    ELSE [i \in 1..Head(tile_counts)[2] |-> Head(tile_counts)[1]]
            \o ExpandCounts(Tail(tile_counts))

(* A variant of _try_form_melds that forgets to compare the two tiles left *)
(* over for the pair.                                                      *)
RECURSIVE TryFormMeldsNoPairCheck(_, _, _)
TryFormMeldsNoPairCheck(tile_counts, melds_needed, current_index) ==
    IF melds_needed = 0
    THEN Len(ExpandCounts(tile_counts)) = 2
    ELSE IF current_index >= Len(tile_counts)
    THEN FALSE
    ELSE LET tile == tile_counts[current_index + 1][1]
             count == tile_counts[current_index + 1][2]
         IN  IF count >= 3
             THEN LET replaced == [tile_counts EXCEPT
                                     ![current_index + 1] = <<tile, count - 3>>]
                      new_tile_counts ==
                          IF count - 3 = 0
                          THEN SubSeq(replaced, 1, current_index)
                                  \o SubSeq(replaced, current_index + 2,
                                            Len(replaced))
                          ELSE replaced
                  IN  TryFormMeldsNoPairCheck(new_tile_counts,
                                              melds_needed - 1, current_index)
             ELSE TryFormMeldsNoPairCheck(tile_counts, melds_needed,
                                          current_index + 1)

(* RuleEngine._try_form_melds; current_index counts from 0 as in the code. *)
RECURSIVE TryFormMelds(_, _, _)
TryFormMelds(tile_counts, melds_needed, current_index) ==
    IF melds_needed = 0
    THEN LET remaining_tiles == ExpandCounts(tile_counts)
         IN  /\ Len(remaining_tiles) = 2
             /\ remaining_tiles[1] = remaining_tiles[2]
    ELSE IF current_index >= Len(tile_counts)
    THEN FALSE
    ELSE LET tile == tile_counts[current_index + 1][1]
             count == tile_counts[current_index + 1][2]
         IN  IF count >= 3
             THEN LET replaced == [tile_counts EXCEPT
                                     ![current_index + 1] = <<tile, count - 3>>]
                      new_tile_counts ==
                          IF count - 3 = 0
                          THEN SubSeq(replaced, 1, current_index)
                                  \o SubSeq(replaced, current_index + 2,
                                            Len(replaced))
                          ELSE replaced
                  IN  TryFormMelds(new_tile_counts, melds_needed - 1,
                                   current_index)
             ELSE TryFormMelds(tile_counts, melds_needed, current_index + 1)

(* RuleEngine._can_form_melds_and_pair *)
CanFormMeldsAndPair(h, melds_needed) ==
    IF melds_needed = 0
    THEN Len(h) = 2 /\ h[1] = h[2]
    ELSE TryFormMelds(CounterItems(h), melds_needed, 0)

(* RuleEngine._check_basic_winning_pattern *)
CheckBasicWinningPattern(h, ms) ==
    LET meld_count == Len(ms)
        remaining_melds_needed == MeldsPerHand - meld_count
        expected_hand_size == remaining_melds_needed * 3 + 2
    IN  IF Len(h) # expected_hand_size
        THEN FALSE
        ELSE CanFormMeldsAndPair(h, remaining_melds_needed)

(* A variant of is_winning_hand without the loop over full_hand that looks *)
(* for a tile of the lack suit.                                            *)
IsWinningHandNoLackLoop(h, ms, win_tile, lack) ==
    IF lack = "None"
    THEN FALSE
    ELSE LET full_hand == IF win_tile # NoTile THEN Append(h, win_tile) ELSE h
         IN  CheckBasicWinningPattern(full_hand, ms)

(* RuleEngine.is_winning_hand *)
IsWinningHand(h, ms, win_tile, lack) ==
    IF lack = "None"
    THEN FALSE
    ELSE LET full_hand == IF win_tile # NoTile THEN Append(h, win_tile) ELSE h
         IN  IF \E i \in 1..Len(full_hand) : full_hand[i].suit = lack
             THEN FALSE
             ELSE CheckBasicWinningPattern(full_hand, ms)

(* game_state.get("players", {}).get(str(player_id), {}) with the defaults *)
(* of the three reads that follow it.                                      *)
PlayerInfo(gs, player_id) ==
    IF player_id \in DOMAIN gs.players
    THEN gs.players[player_id]
    ELSE [hand |-> <<>>, melds |-> <<>>, lack_suit |-> "None"]

(* A variant of is_valid_action whose LACK branch does not look at the     *)
(* phase.                                                                  *)
IsValidActionLackAnytime(action, gs) ==
    LET player_id == gs.current_player_id
        player_info == PlayerInfo(gs, player_id)
        h == player_info.hand
    IN  CASE action.action_type = "DISCARD" ->
                IF action.tile = NoTile THEN FALSE ELSE Contains(h, action.tile)
          [] action.action_type = "PONG" ->
                IF gs.last_discard = NoTile
                THEN FALSE
                ELSE Count(h, gs.last_discard) >= 2
          [] action.action_type = "GANG" ->
                IF action.tile = NoTile
                THEN FALSE
                ELSE LET tile_count == Count(h, action.tile)
                         has_pong ==
                            \E i \in 1..Len(player_info.melds) :
                               /\ player_info.melds[i].meld_type = "PONG"
                               /\ GetBaseTile(player_info.melds[i]) = action.tile
                     IN  \/ tile_count = 4
                         \/ gs.last_discard = action.tile /\ tile_count = 3
                         \/ has_pong /\ tile_count = 1
          [] action.action_type = "HU" ->
                IsWinningHand(h, player_info.melds, gs.last_discard,
                              player_info.lack_suit)
          [] action.action_type = "PASS" -> TRUE
          [] action.action_type = "LACK" -> TRUE
          [] OTHER -> FALSE

(* A variant of is_valid_action whose GANG branch lacks the added kong     *)
(* (a PONG meld of the tile and one copy in the hand).                     *)
IsValidActionNoAddedGang(action, gs) ==
    LET player_id == gs.current_player_id
        player_info == PlayerInfo(gs, player_id)
        h == player_info.hand
    IN  CASE action.action_type = "DISCARD" ->
                IF action.tile = NoTile THEN FALSE ELSE Contains(h, action.tile)
          [] action.action_type = "PONG" ->
                IF gs.last_discard = NoTile
                THEN FALSE
                ELSE Count(h, gs.last_discard) >= 2
          [] action.action_type = "GANG" ->
                IF action.tile = NoTile
                THEN FALSE
                ELSE LET tile_count == Count(h, action.tile)
                     IN  \/ tile_count = 4
                         \/ gs.last_discard = action.tile /\ tile_count = 3
          [] action.action_type = "HU" ->
                IsWinningHand(h, player_info.melds, gs.last_discard,
                              player_info.lack_suit)
          [] action.action_type = "PASS" -> TRUE
          [] action.action_type = "LACK" -> gs.phase = "LACK_SELECTION"
          [] OTHER -> FALSE

(* RuleEngine.is_valid_action *)
IsValidAction(action, gs) ==
    LET player_id == gs.current_player_id
        player_info == PlayerInfo(gs, player_id)
        h == player_info.hand
    IN  CASE action.action_type = "DISCARD" ->
                IF action.tile = NoTile THEN FALSE ELSE Contains(h, action.tile)
          [] action.action_type = "PONG" ->
                IF gs.last_discard = NoTile
                THEN FALSE
                ELSE Count(h, gs.last_discard) >= 2
          [] action.action_type = "GANG" ->
                IF action.tile = NoTile
                THEN FALSE
                ELSE LET tile_count == Count(h, action.tile)
                         has_pong ==
                            \E i \in 1..Len(player_info.melds) :
                               /\ player_info.melds[i].meld_type = "PONG"
                               /\ GetBaseTile(player_info.melds[i]) = action.tile
                     IN  \/ tile_count = 4
                         \/ gs.last_discard = action.tile /\ tile_count = 3
                         \/ has_pong /\ tile_count = 1
          [] action.action_type = "HU" ->
                IsWinningHand(h, player_info.melds, gs.last_discard,
                              player_info.lack_suit)
          [] action.action_type = "PASS" -> TRUE
          [] action.action_type = "LACK" -> gs.phase = "LACK_SELECTION"
          [] OTHER -> FALSE

(* A variant of is_winning_hand that appends the winning tile to the hand  *)
(* it was given instead of to a copy.                                      *)
IsWinningHandRunNoCopy(h, ms, win_tile, lack) ==
    IF lack = "None"
    THEN [hand |-> h, melds |-> ms, result |-> FALSE]
    ELSE [hand |-> IF win_tile # NoTile THEN Append(h, win_tile) ELSE h,
          melds |-> ms,
          result |-> IsWinningHand(h, ms, win_tile, lack)]

(* One call of is_winning_hand on the list objects h and ms: the lists     *)
(* after the call and the value returned.  full_hand is hand.copy(), the   *)
(* winning tile is appended to the copy, and the decomposer counts the     *)
(* copy into a Counter of its own; h and ms are only read.                 *)
IsWinningHandRun(h, ms, win_tile, lack) ==
    [hand |-> h, melds |-> ms, result |-> IsWinningHand(h, ms, win_tile, lack)]

(* One call of is_valid_action on the snapshot gs: the snapshot after the  *)
(* call and the value returned.  The HU branch hands the hand and melds    *)
(* lists of the snapshot to is_winning_hand; the other branches only read. *)
IsValidActionRun(action, gs) ==
    LET player_id == gs.current_player_id
        player_info == PlayerInfo(gs, player_id)
    IN  IF action.action_type = "HU" /\ player_id \in DOMAIN gs.players
        THEN LET run == IsWinningHandRun(player_info.hand, player_info.melds,
                                         gs.last_discard, player_info.lack_suit)
             IN  [game_state |-> [gs EXCEPT !.players[player_id].hand = run.hand,
                                            !.players[player_id].melds = run.melds],
                  result |-> run.result]
        ELSE [game_state |-> gs, result |-> IsValidAction(action, gs)]

(* RuleEngine.get_possible_actions, as the set of the actions of the list  *)
(* it returns.  asking_player_id is read with current_player_id as its     *)
(* default.                                                                *)
GetPossibleActions(player_hand, gs) ==
    LET current_player == gs.current_player_id
        player_id == IF "asking_player_id" \in DOMAIN gs
                     THEN gs.asking_player_id
                     ELSE current_player
        kinds == {player_hand[i] : i \in 1..Len(player_hand)}
        own_turn ==
            IF current_player = player_id
            THEN IF Len(player_hand) > 13
                 THEN {Action("DISCARD", t, "None") : t \in kinds}
                      \cup {Action("GANG", t, "None") :
                              t \in {k \in kinds : Count(player_hand, k) = 4}}
                 ELSE {PassAction}
            ELSE {PassAction}
        last_discard == gs.last_discard
        player_info == PlayerInfo(gs, player_id)
        claims ==
            IF last_discard # NoTile /\ current_player # player_id
            THEN LET discard_count == Count(player_hand, last_discard)
                 IN  (IF discard_count >= 2
                      THEN {Action("PONG", NoTile, "None")} ELSE {})
                     \cup (IF discard_count >= 3
                           THEN {Action("GANG", last_discard, "None")} ELSE {})
                     \cup (IF IsWinningHand(player_hand, player_info.melds,
                                            last_discard, player_info.lack_suit)
                           THEN {Action("HU", NoTile, "None")} ELSE {})
            ELSE {}
    IN  own_turn \cup claims

----------------------------------------------------------------------------
(* The wall and the outcomes of random.shuffle the model explores.         *)

(* The wall as _shuffle_and_deal builds it: suit by suit, rank by rank,    *)
(* TOTAL_TILES_PER_RANK copies of each tile.                               *)
BuildWall ==
    [i \in 1..(Len(SUITS_LIST) * NumRanks * TOTAL_TILES_PER_RANK) |->
        Tile(SUITS_LIST[((i - 1) \div (NumRanks * TOTAL_TILES_PER_RANK)) + 1],
             (((i - 1) % (NumRanks * TOTAL_TILES_PER_RANK))
                 \div TOTAL_TILES_PER_RANK) + 1)]

Wan(r) == Tile("WAN", r)
Tong(r) == Tile("TONG", r)
Tiao(r) == Tile("TIAO", r)

(* One outcome of the shuffle, given by the hands it deals and the first   *)
(* tiles drawn after the deal.  Seat 0 holds four triplets and a single    *)
(* 5-wan and draws the matching 5-wan; seat 1 holds four triplets and a    *)
(* single 5-wan; seat 2 holds the tiles seat 3 needs for a pong (8-tong),  *)
(* an open kong (9-tong); seat 3 also holds four 4-tong.                   *)
DealtHands ==
    <<  <<Wan(6), Wan(6), Wan(6), Wan(7), Wan(7), Wan(7), Wan(8), Wan(8),
          Wan(8), Wan(9), Wan(9), Wan(9), Wan(5)>>,
        <<Wan(1), Wan(1), Wan(1), Wan(2), Wan(2), Wan(2), Wan(3), Wan(3),
          Wan(3), Wan(4), Wan(4), Wan(4), Wan(5)>>,
        <<Tong(8), Tong(9), Tong(1), Tong(1), Tong(1), Tong(2), Tong(2),
          Tong(2), Tong(3), Tong(3), Tong(3), Tiao(1), Tiao(2)>>,
        <<Tong(8), Tong(8), Tong(9), Tong(9), Tong(9), Tong(4), Tong(4),
          Tong(4), Tong(4), Tong(5), Tong(6), Tong(7), Tiao(3)>>  >>
FirstDraws == <<Wan(5), Tiao(1), Tiao(2), Tong(5), Tiao(9)>>

(* The wall that deals DealtHands and then FirstDraws: the deal pops the   *)
(* last tile of the wall, seat after seat, HAND_SIZE times round.          *)
ShuffledWall ==
    LET dealOrder == [k \in 1..(HAND_SIZE * NumPlayers) |->
                        DealtHands[((k - 1) % NumPlayers) + 1]
                                  [((k - 1) \div NumPlayers) + 1]]
        popped == dealOrder \o FirstDraws
        earlier(i) == Cardinality({j \in 1..(i - 1) :
                                     BuildWall[j] = BuildWall[i]})
        left == {i \in 1..Len(BuildWall) :
                    earlier(i) >= Count(popped, BuildWall[i])}
        rest == [k \in 1..Cardinality(left) |->
                    BuildWall[CHOOSE i \in left :
                                 Cardinality({j \in left : j < i}) = k - 1]]
    IN  Reverse(popped \o rest)

Shuffles == {ShuffledWall}

----------------------------------------------------------------------------
(* The decision source (LLMClient behind LLMPlayer.decide_action and       *)
(* choose_lack): a request either fails, and the player returns its        *)
(* default, or is answered by an Action that _parse_response built.  The   *)
(* answers carry a tile only with DISCARD and GANG and a suit only with    *)
(* LACK.  The tiles the answers name are SourceTiles: tiles the seats hold *)
(* after the deal (5-wan, 6-wan, 8-tong, 9-tong, 4-tong), the tile seat 1  *)
(* draws without holding a copy of it (1-tiao), and one no seat holds     *)
(* after the deal (9-tiao).                                               *)
SourceTiles == {Wan(5), Wan(6), Tong(8), Tong(9), Tong(4), Tiao(1), Tiao(9)}
SourceActions ==
    {Action("DISCARD", t, "None") : t \in SourceTiles}
        \cup {Action("GANG", t, "None") : t \in SourceTiles \cup {NoTile}}
        \cup {Action(a, NoTile, "None") : a \in {"PONG", "HU", "PASS"}}
        \cup {Action("LACK", NoTile, s) : s \in Suits}

----------------------------------------------------------------------------
(* The game engine (src/src/engine/game.py).  The operators below take the *)
(* engine and its players as one record, self, and return it updated.      *)

Self ==
    [phase |-> phase, wall |-> wall, current_player_id |-> current_player_id,
     game_state |-> game_state, winners |-> winners, hand |-> hand,
     melds |-> melds, lack_suit |-> lack_suit, wins |-> wins]

(* Meld.to_dict *)
MeldToDict(m) ==
    [meld_type |-> m.meld_type,
     tiles |-> m.tiles,
     tile_names |-> [i \in 1..Len(m.tiles) |-> TileStr(m.tiles[i])],
     base_tile |-> TileStr(GetBaseTile(m)),
     is_concealed |-> (m.meld_type = "AN_GANG")]

(* Game._update_players_info: the hand is copied, the meld list is the     *)
(* player's own list (which nothing changes between two snapshots).        *)
UpdatePlayersInfo(s) ==
    [s EXCEPT !.game_state.players =
        [p \in Players |-> [hand |-> s.hand[p], melds |-> s.melds[p],
                            lack_suit |-> s.lack_suit[p]]]]

(* Game._update_game_state *)
UpdateGameState(s) ==
    LET s1 == UpdatePlayersInfo(s)
    IN  [s1 EXCEPT !.game_state.melds =
            [p \in Players |->
                [i \in 1..Len(s1.melds[p]) |-> MeldToDict(s1.melds[p][i])]]]

(* A variant of _next_player that leaves the snapshot's index behind.      *)
NextPlayerNoSnapshot(s) ==
    [s EXCEPT !.current_player_id = (s.current_player_id + 1) % NumPlayers]

(* Game._next_player *)
NextPlayer(s) ==
    LET next == (s.current_player_id + 1) % NumPlayers
    IN  [s EXCEPT !.current_player_id = next,
                  !.game_state.current_player_id = next]

(* A variant of _handle_discard that logs the tile and leaves it in the    *)
(* hand.                                                                   *)
HandleDiscardKeepsTile(s, action) ==
    LET cur == s.current_player_id
        s1 == IF action.tile # NoTile /\ Contains(s.hand[cur], action.tile)
              THEN [s EXCEPT
                      !.game_state.discards[cur] = Append(@, TileStr(action.tile)),
                      !.game_state.last_discard = action.tile]
              ELSE s
    IN  NextPlayer(s1)

(* A variant of _handle_discard that does not record the tile as the last  *)
(* discard.                                                                *)
HandleDiscardNoLastDiscard(s, action) ==
    LET cur == s.current_player_id
        s1 == IF action.tile # NoTile /\ Contains(s.hand[cur], action.tile)
              THEN [s EXCEPT
                      !.hand[cur] = RemoveFirst(@, action.tile),
                      !.game_state.discards[cur] = Append(@, TileStr(action.tile))]
              ELSE s
    IN  NextPlayer(s1)

(* Game._handle_discard, with LLMPlayer.remove_tile and the empty          *)
(* _ask_other_players_for_response.                                        *)
HandleDiscard(s, action) ==
    LET cur == s.current_player_id
        s1 == IF action.tile # NoTile /\ Contains(s.hand[cur], action.tile)
              THEN [s EXCEPT
                      !.hand[cur] = RemoveFirst(@, action.tile),
                      !.game_state.discards[cur] = Append(@, TileStr(action.tile)),
                      !.game_state.last_discard = action.tile]
              ELSE s
    IN  NextPlayer(s1)

(* Game._handle_pong and Game._handle_gang only render a message.          *)
HandlePong(s, action) == s
HandleGang(s, action) == s

(* A variant of _handle_hu that ends the round without recording the       *)
(* winner.                                                                 *)
HandleHuNoWinner(s, action) ==
    [s EXCEPT !.wins[s.current_player_id] = @ + 1,
              !.phase = "ENDED"]

(* Game._handle_hu *)
HandleHu(s, action) ==
    [s EXCEPT !.winners = Append(@, s.current_player_id),
              !.wins[s.current_player_id] = @ + 1,
              !.phase = "ENDED"]

(* Game._handle_pass *)
HandlePass(s, action) == NextPlayer(s)

(* The action _process_action goes on with: the one it was given if the    *)
(* rule engine accepts it, Action(PASS) otherwise.                         *)
CheckedActionUnchecked(s, action) == action
CheckedAction(s, action) ==
    IF IsValidAction(action, s.game_state) THEN action ELSE PassAction

(* Game._process_action *)
ProcessAction(s, given) ==
    LET action == CheckedAction(s, given)
        s1 == [s EXCEPT !.game_state.last_action =
                  [player_id |-> s.current_player_id,
                   action |-> action.action_type,
                   tile |-> IF action.tile # NoTile
                            THEN TileStr(action.tile) ELSE <<>>]]
    IN  CASE action.action_type = "DISCARD" -> HandleDiscard(s1, action)
          [] action.action_type = "PONG" -> HandlePong(s1, action)
          [] action.action_type = "GANG" -> HandleGang(s1, action)
          [] action.action_type = "HU" -> HandleHu(s1, action)
          [] action.action_type = "PASS" -> HandlePass(s1, action)
          [] OTHER -> s1

(* The first half of Game._game_turn: the draw.                            *)
DrawTile(s) ==
    IF s.wall # <<>>
    THEN [s EXCEPT !.wall = Front(s.wall),
                   !.hand[s.current_player_id] = Append(@, Last(s.wall)),
                   !.game_state.wall_remaining = Len(s.wall) - 1]
    ELSE s

(* A variant of _check_game_end that does not look at the wall.            *)
CheckGameEndWinnersOnly(s) == s.winners # <<>>

(* Game._check_game_end *)
CheckGameEnd(s) == s.winners # <<>> \/ s.wall = <<>>

(* The deal of _shuffle_and_deal: HAND_SIZE rounds of one pop per player,  *)
(* as long as the wall has tiles.  Pop number k (from 0) takes the tile    *)
(* that is k places from the end of the wall and gives it to player        *)
(* k mod 4.                                                                *)
Deal(s) ==
    LET total == HAND_SIZE * NumPlayers
        pops == IF Len(s.wall) < total THEN Len(s.wall) ELSE total
        taken(p) == Cardinality({k \in 0..(pops - 1) : k % NumPlayers = p})
    IN  [s EXCEPT !.wall = SubSeq(s.wall, 1, Len(s.wall) - pops),
                  !.hand = [p \in Players |->
                              s.hand[p] \o
                              [i \in 1..taken(p) |->
                                 s.wall[Len(s.wall)
                                        - ((i - 1) * NumPlayers + p)]]]]

(* Game._initialize_round with LLMPlayer.reset_for_new_round *)
InitializeRound(s) ==
    [s EXCEPT !.phase = "INIT",
              !.current_player_id = 0,
              !.winners = <<>>,
              !.hand = [p \in Players |-> <<>>],
              !.melds = [p \in Players |-> <<>>],
              !.lack_suit = [p \in Players |-> "None"],
              !.game_state.phase = "INIT",
              !.game_state.current_player_id = 0,
              !.game_state.discards = [p \in Players |-> <<>>],
              !.game_state.melds = [p \in Players |-> <<>>],
              !.game_state.last_action = NoAction,
              !.game_state.last_discard = NoTile,
              !.game_state.players = <<>>]

(* A variant of _shuffle_and_deal that leaves the snapshot's count of the  *)
(* wall as it was.                                                         *)
ShuffleAndDealNoCount(s, w) == Deal([s EXCEPT !.wall = w])

(* Game._shuffle_and_deal, for the shuffled wall w *)
ShuffleAndDeal(s, w) ==
    LET s1 == Deal([s EXCEPT !.wall = w])
    IN  [s1 EXCEPT !.game_state.wall_remaining = Len(s1.wall)]

(* The engine and the players take the values of the record s.             *)
Commit(s) ==
    /\ phase' = s.phase
    /\ wall' = s.wall
    /\ current_player_id' = s.current_player_id
    /\ game_state' = s.game_state
    /\ winners' = s.winners
    /\ hand' = s.hand
    /\ melds' = s.melds
    /\ lack_suit' = s.lack_suit
    /\ wins' = s.wins

----------------------------------------------------------------------------
(* The players' side of a request (src/src/player/llm_player.py).          *)

SourceFailure == Action("RAISED", NoTile, "None")

(* The value of the local variable action (turn_action) before the await  *)
(* of decide_action or choose_lack has returned.                           *)
Unassigned == Action("None", NoTile, "None")

(* Responses no Action can be built from: a DISCARD without a tile and a   *)
(* LACK without a suit (Action._validate raises) and an action name that   *)
(* is not an ActionType (ActionType(...) raises).                          *)
MalformedResponses ==
    {Action("DISCARD", NoTile, "None"), Action("LACK", NoTile, "None"),
     Action("CHI", NoTile, "None")}
SourceResponses == SourceActions \cup MalformedResponses

(* LLMPlayer._parse_response: the Action built from the response, or       *)
(* Action(PASS) when building it raised.                                   *)
ParseResponse(response) ==
    IF response.action_type \in ActionTypes /\ ActionValidates(response)
    THEN response
    ELSE PassAction

(* What the source may do with a request: fail, or, while it is live,      *)
(* answer with any response.                                               *)
Outcomes(live) == {SourceFailure} \cup (IF live THEN SourceResponses ELSE {})

(* A variant of decide_action without the except clause and without the    *)
(* parse: what the source gave is what is returned.                        *)
DecideActionNoDefault(outcome) == outcome

(* LLMPlayer.decide_action: the parsed action, or Action(PASS) when the    *)
(* request raised.                                                         *)
DecideAction(outcome) ==
    IF outcome = SourceFailure THEN PassAction ELSE ParseResponse(outcome)

(* LLMPlayer.choose_lack: the action returned, and the suit the player     *)
(* sets on its own before returning ("None": it sets nothing).             *)
ChooseLackAction(outcome) ==
    IF outcome = SourceFailure
    THEN Action("LACK", NoTile, "TIAO")
    ELSE ParseResponse(outcome)
ChooseLackSets(outcome) ==
    LET action == ParseResponse(outcome)
    IN  IF outcome = SourceFailure
        THEN "TIAO"
        ELSE IF action.action_type = "LACK" /\ action.suit # "None"
        THEN action.suit
        ELSE "None"

(* A variant of the loop body that sets the default suit whatever the      *)
(* player returned.                                                        *)
LackSelectionStepAlwaysDefault(s, p, outcome) ==
    [s EXCEPT !.lack_suit[p] = "TIAO"]

(* One round of the for loop of Game._lack_selection_phase, for player p.  *)
LackSelectionStep(s, p, outcome) ==
    LET action == ChooseLackAction(outcome)
        own == ChooseLackSets(outcome)
        s1 == IF own # "None" THEN [s EXCEPT !.lack_suit[p] = own] ELSE s
    IN  IF action.action_type = "LACK" /\ action.suit # "None"
        THEN [s1 EXCEPT !.lack_suit[p] = action.suit]
        ELSE [s1 EXCEPT !.lack_suit[p] = "TIAO"]

----------------------------------------------------------------------------
(* Game.run as a state machine.  pc is the place where run stands: "init"  *)
(* before _start_round, "dealt" after _shuffle_and_deal, "lack" at the     *)
(* await of choose_lack, "lack_done" after the for loop, "turn" at the top *)
(* of the while loop of _playing_phase, "decide" at the await of           *)
(* decide_action, "round_over" when _playing_phase has returned, "done"    *)
(* after _end_game.                                                        *)

NoGameState ==
    [phase |-> "INIT", current_player_id |-> 0, wall_remaining |-> 0,
     discards |-> [p \in Players |-> <<>>],
     melds |-> [p \in Players |-> <<>>],
     last_action |-> NoAction, last_discard |-> NoTile, round |-> 1,
     players |-> <<>>,
     winners |-> [present |-> FALSE, value |-> <<>>]]

(* Game.__init__ and LLMPlayer.__init__ *)
GameInit ==
    /\ pc = "init"
    /\ phase = "INIT"
    /\ wall = <<>>
    /\ current_player_id = 0
    /\ round_number = 1
    /\ game_state = NoGameState
    /\ winners = <<>>
    /\ turn_count = 0
    /\ turn_action = Unassigned
    /\ lack_index = 0
    /\ hand = [p \in Players |-> <<>>]
    /\ melds = [p \in Players |-> <<>>]
    /\ lack_suit = [p \in Players |-> "None"]
    /\ wins = [p \in Players |-> 0]
    /\ decisions_made = [p \in Players |-> 0]
    /\ answered = 0
    /\ last_discarder = -1

FnIdle ==
    /\ fn_pc = "idle"
    /\ fn_hand = <<>>
    /\ fn_melds = <<>>
    /\ fn_win_tile = NoTile
    /\ fn_lack = "None"
    /\ fn_tile = NoTile
    /\ fn_arg = "None"
    /\ fn_result = FALSE

Init == GameInit /\ FnIdle

(* _start_round up to the end of _shuffle_and_deal *)
StartRound ==
    /\ pc = "init"
    /\ phase # "ENDED"
    /\ \E w \in Shuffles : Commit(ShuffleAndDeal(InitializeRound(Self), w))
    /\ pc' = "dealt"
    /\ last_discarder' = -1
    /\ UNCHANGED <<round_number, turn_count, turn_action, lack_index,
                   decisions_made, answered>>
    /\ UNCHANGED fnVars

(* _lack_selection_phase up to its for loop *)
EnterLackSelection ==
    /\ pc = "dealt"
    /\ Commit(UpdatePlayersInfo(
                [Self EXCEPT !.phase = "LACK_SELECTION",
                             !.game_state.phase = "LACK_SELECTION"]))
    /\ lack_index' = 0
    /\ pc' = "lack"
    /\ UNCHANGED <<round_number, turn_count, turn_action, decisions_made,
                   answered, last_discarder>>
    /\ UNCHANGED fnVars

(* choose_lack of the next player returns *)
ChooseLack ==
    /\ pc = "lack"
    /\ \E outcome \in Outcomes(answered < MaxAnswers) :
          /\ Commit(LackSelectionStep(Self, lack_index, outcome))
          /\ turn_action' = ChooseLackAction(outcome)
          /\ answered' = IF outcome = SourceFailure THEN answered
                         ELSE answered + 1
    /\ lack_index' = lack_index + 1
    /\ pc' = IF lack_index + 1 = NumPlayers THEN "lack_done" ELSE "lack"
    /\ UNCHANGED <<round_number, turn_count, decisions_made, last_discarder>>
    /\ UNCHANGED fnVars

(* Two variants of the loop come first: one goes on where the code breaks, *)
(* one leaves the loop with the phase reset to INIT.                       *)
(* Where the while loop of _playing_phase stands when control reaches its  *)
(* test with the engine s and turn count tc (broke: the loop was left by   *)
(* break): at the next turn, or past the loop with the phase set to ENDED. *)
LoopTestContinuesOnBreak(s, tc, broke) ==
    IF s.phase = "PLAYING" /\ tc < max_turns
    THEN [s |-> s, pc |-> "turn"]
    ELSE [s |-> [s EXCEPT !.phase = "ENDED"], pc |-> "round_over"]
LoopTestLeavesInInit(s, tc, broke) ==
    IF ~broke /\ s.phase = "PLAYING" /\ tc < max_turns
    THEN [s |-> s, pc |-> "turn"]
    ELSE [s |-> [s EXCEPT !.phase = "INIT"], pc |-> "round_over"]
LoopTest(s, tc, broke) ==
    IF ~broke /\ s.phase = "PLAYING" /\ tc < max_turns
    THEN [s |-> s, pc |-> "turn"]
    ELSE [s |-> [s EXCEPT !.phase = "ENDED"], pc |-> "round_over"]

(* _playing_phase up to the first test of its loop *)
EnterPlaying ==
    /\ pc = "lack_done"
    /\ LET s == [Self EXCEPT !.phase = "PLAYING",
                             !.game_state.phase = "PLAYING"]
           next == LoopTest(s, 0, FALSE)
       IN  Commit(next.s) /\ pc' = next.pc
    /\ turn_count' = 0
    /\ turn_action' = Unassigned
    /\ UNCHANGED <<round_number, lack_index, decisions_made, answered,
                   last_discarder>>
    /\ UNCHANGED fnVars

(* one turn of the loop up to the await of decide_action *)
BeginTurn ==
    /\ pc = "turn"
    /\ Commit(DrawTile(UpdateGameState(Self)))
    /\ pc' = "decide"
    /\ turn_action' = Unassigned
    /\ UNCHANGED <<round_number, turn_count, lack_index, decisions_made,
                   answered, last_discarder>>
    /\ UNCHANGED fnVars

(* decide_action returns: _process_action, _check_game_end, the count of   *)
(* the turn and the test of the loop.                                      *)
Decide ==
    /\ pc = "decide"
    /\ \E outcome \in Outcomes(answered < MaxAnswers /\ turn_count < LiveTurns) :
          LET s == ProcessAction(Self, DecideAction(outcome))
              broke == CheckGameEnd(s)
              tc == IF broke THEN turn_count ELSE turn_count + 1
              next == LoopTest(s, tc, broke)
          IN  /\ Commit(next.s)
              /\ pc' = next.pc
              /\ turn_count' = tc
              /\ turn_action' = DecideAction(outcome)
              /\ last_discarder' =
                    IF s.game_state.last_action.action = "DISCARD"
                    THEN current_player_id
                    ELSE last_discarder
              /\ answered' = IF outcome = SourceFailure THEN answered
                             ELSE answered + 1
              /\ decisions_made' =
                    IF outcome = SourceFailure THEN decisions_made
                    ELSE [decisions_made EXCEPT ![current_player_id] = @ + 1]
    /\ UNCHANGED <<round_number, lack_index>>
    /\ UNCHANGED fnVars

(* run after _start_round: the phase is ENDED, so the loop is left, and    *)
(* _end_game runs.                                                         *)
EndGame ==
    /\ pc = "round_over"
    /\ Commit([Self EXCEPT !.phase = "ENDED",
                           !.game_state.phase = "ENDED",
                           !.game_state.winners =
                               [present |-> TRUE, value |-> winners]])
    /\ round_number' = IF phase = "ENDED" THEN round_number
                       ELSE round_number + 1
    /\ pc' = "done"
    /\ UNCHANGED <<turn_count, turn_action, lack_index, decisions_made,
                   answered, last_discarder>>
    /\ UNCHANGED fnVars

Next ==
    \/ StartRound
    \/ EnterLackSelection
    \/ ChooseLack
    \/ EnterPlaying
    \/ BeginTurn
    \/ Decide
    \/ EndGame

Spec == Init /\ [][Next]_vars

(* Every request to the decision source returns, and the event loop        *)
(* resumes the coroutine run() as long as it has not returned.  Resumed is *)
(* the shape of a resumption: run() has not returned and comes to stand at *)
(* another place, or at the same await for the next player.  Every step of *)
(* Next is of this shape, and some step of Next is possible wherever pc is *)
(* not "done", so this is weak fairness of Next.                           *)
PcValues == {"init", "dealt", "lack", "lack_done", "turn", "decide",
             "round_over", "done"}
Resumed ==
    /\ pc # "done"
    /\ pc' \in PcValues
    /\ lack_index' \in 0..NumPlayers
FairSpec == Spec /\ WF_<<pc, lack_index>>(Resumed)

----------------------------------------------------------------------------
(* A harness for the rule engine's pure functions: the arguments are drawn *)
(* at the start and one step applies the function to them.                 *)

(* The k-th denomination the harness uses: 1-wan, 1-tong, 1-tiao, 2-wan... *)
KindTile(k) == Tile(SUITS_LIST[((k - 1) % Len(SUITS_LIST)) + 1],
                    ((k - 1) \div Len(SUITS_LIST)) + 1)

(* The hand with copies[k] tiles of the denomination order[k], for k = i,  *)
(* i + 1, ..., in this order.                                              *)
RECURSIVE HandFrom(_, _, _)
HandFrom(copies, order, i) ==
    IF i > Len(order)
    THEN <<>>
    ELSE [j \in 1..copies[order[i]] |-> KindTile(order[i])]
            \o HandFrom(copies, order, i + 1)

KindOrders == {[k \in 1..NumKinds |-> k], [k \in 1..NumKinds |-> NumKinds + 1 - k]}

HarnessHands ==
    {HandFrom(copies, order, 1) :
        copies \in [1..NumKinds -> 0..TOTAL_TILES_PER_RANK], order \in KindOrders}

HarnessMelds ==
    {[i \in 1..m |-> Meld("PONG", <<Tiao(9), Tiao(9), Tiao(9)>>)] :
        m \in 0..MeldsPerHand}

DecompInit ==
    /\ GameInit
    /\ fn_pc = "input"
    /\ fn_hand \in HarnessHands
    /\ fn_melds \in HarnessMelds
    /\ fn_win_tile = NoTile
    /\ fn_lack = "None"
    /\ fn_tile = NoTile
    /\ fn_arg = "None"
    /\ fn_result = FALSE

CallCheckBasicWinningPattern ==
    /\ fn_pc = "input"
    /\ fn_result' = CheckBasicWinningPattern(fn_hand, fn_melds)
    /\ fn_pc' = "done"
    /\ UNCHANGED <<fn_hand, fn_melds, fn_win_tile, fn_lack, fn_tile, fn_arg>>
    /\ UNCHANGED gameVars

DecompNext == CallCheckBasicWinningPattern

DecompSpec == DecompInit /\ [][DecompNext]_vars

(* is_winning_hand is called on the hands that, with the winning tile,     *)
(* have the size _check_basic_winning_pattern expects for the melds given; *)
(* on any other it returns False whatever the suits are.                   *)
WinInit ==
    /\ GameInit
    /\ fn_pc = "input"
    /\ fn_hand \in HarnessHands
    /\ fn_melds \in HarnessMelds
    /\ fn_win_tile \in {KindTile(k) : k \in 1..NumKinds} \cup {NoTile}
    /\ Len(fn_hand) + (IF fn_win_tile = NoTile THEN 0 ELSE 1)
          = (MeldsPerHand - Len(fn_melds)) * 3 + 2
    /\ fn_lack \in Suits \cup {"None"}
    /\ fn_tile = NoTile
    /\ fn_arg = "None"
    /\ fn_result = FALSE

CallIsWinningHand ==
    /\ fn_pc = "input"
    /\ fn_result' = IsWinningHand(fn_hand, fn_melds, fn_win_tile, fn_lack)
    /\ fn_pc' = "done"
    /\ UNCHANGED <<fn_hand, fn_melds, fn_win_tile, fn_lack, fn_tile, fn_arg>>
    /\ UNCHANGED gameVars

WinNext == CallIsWinningHand

WinSpec == WinInit /\ [][WinNext]_vars

----------------------------------------------------------------------------
(* The GANG branch of is_valid_action on its own: the hand, the melds and  *)
(* the last discard of the snapshot and the tile of the action are drawn   *)
(* from two denominations.                                                 *)

Copies(t, n) == [i \in 1..n |-> t]

GangHands ==
    {Copies(KindTile(1), a) \o Copies(KindTile(2), b) :
        a \in 0..TOTAL_TILES_PER_RANK, b \in 0..TOTAL_TILES_PER_RANK}
GangTiles == {KindTile(1), KindTile(2), NoTile}
GangMelds ==
    {<<>>,
     <<Meld("PONG", Copies(KindTile(1), 3))>>,
     <<Meld("MING_GANG", Copies(KindTile(2), 4))>>,
     <<Meld("PONG", Copies(KindTile(2), 3)),
       Meld("PONG", Copies(KindTile(1), 3))>>}

(* The snapshot is_valid_action reads: the current player's entry holds    *)
(* the harness's hand and melds, last_discard its last discard.            *)
HarnessGameState ==
    [NoGameState EXCEPT
        !.phase = "PLAYING",
        !.players = [p \in Players |->
                        [hand |-> fn_hand, melds |-> fn_melds,
                         lack_suit |-> fn_lack]],
        !.last_discard = fn_win_tile]

GangInit ==
    /\ GameInit
    /\ fn_pc = "input"
    /\ fn_hand \in GangHands
    /\ fn_melds \in GangMelds
    /\ fn_win_tile \in GangTiles
    /\ fn_lack = "None"
    /\ fn_tile \in GangTiles
    /\ fn_arg = "None"
    /\ fn_result = FALSE

CallIsValidActionGang ==
    /\ fn_pc = "input"
    /\ fn_result' = IsValidAction(Action("GANG", fn_tile, "None"),
                                  HarnessGameState)
    /\ fn_pc' = "done"
    /\ UNCHANGED <<fn_hand, fn_melds, fn_win_tile, fn_lack, fn_tile, fn_arg>>
    /\ UNCHANGED gameVars

GangNext == CallIsValidActionGang

GangSpec == GangInit /\ [][GangNext]_vars

----------------------------------------------------------------------------
(* The hand analyzer (src/src/player/hand_analyzer.py).                    *)

(* all_possible_tiles of _check_winning_tiles: suit by suit, ranks 1 to 9  *)
AllPossibleTiles ==
    [i \in 1..(Len(SUITS_LIST) * NumRanks) |->
        Tile(SUITS_LIST[((i - 1) \div NumRanks) + 1], ((i - 1) % NumRanks) + 1)]

(* HandAnalyzer._is_winning_hand_simple: 14 tiles, every tile 2, 3 or 4    *)
(* times, one tile twice and four tiles 3 or 4 times.                      *)
IsWinningHandSimple(h) ==
    IF Len(h) # 14
    THEN FALSE
    ELSE LET kinds == {h[i] : i \in 1..Len(h)}
             pairs == Cardinality({t \in kinds : Count(h, t) = 2})
             triplets == Cardinality({t \in kinds : Count(h, t) \in {3, 4}})
         IN  IF \E t \in kinds : Count(h, t) \notin {2, 3, 4}
             THEN FALSE
             ELSE pairs = 1 /\ triplets = 4

(* HandAnalyzer._check_winning_tiles: the names of the tiles that make the *)
(* hand pass _is_winning_hand_simple, in the order of all_possible_tiles.  *)
CheckWinningTiles(h) ==
    LET accepts(t) == IsWinningHandSimple(Append(h, t))
        winning == SelectSeq(AllPossibleTiles, accepts)
    IN  [i \in 1..Len(winning) |-> TileStr(winning[i])]

(* HandAnalyzer._find_ting.  The loop runs over set(hand), whose order is  *)
(* not fixed, and ting_tiles is list(set(...)): discard_options and        *)
(* ting_tiles are kept as sets.                                            *)
FindTing(h) ==
    LET options ==
            {[discard |-> TileStr(d),
              can_win_with |-> CheckWinningTiles(RemoveFirst(h, d))] :
                d \in {h[i] : i \in 1..Len(h)}}
        listed == {o \in options : o.can_win_with # <<>>}
    IN  [is_ting |-> listed # {},
         ting_tiles |-> UNION {{o.can_win_with[i] : i \in 1..Len(o.can_win_with)} :
                                  o \in listed},
         discard_options |-> listed]

(* The tiles of the set S as a sequence, from the lowest to the highest.   *)
Ascending(S) ==
    [i \in 1..Cardinality(S) |->
        CHOOSE t \in S : Cardinality({u \in S : TileLt(u, t)}) = i - 1]

(* A variant of the loop of _find_ting that removes the discard from the   *)
(* hand itself instead of from a copy.                                     *)
RECURSIVE FindTingLoopNoCopy(_, _, _)
FindTingLoopNoCopy(hand_list, todo, options) ==
    IF todo = <<>>
    THEN [hand |-> hand_list, options |-> options]
    ELSE LET discard_tile == Head(todo)
             temp_hand == RemoveFirst(hand_list, discard_tile)
             winning_tiles == CheckWinningTiles(temp_hand)
         IN  FindTingLoopNoCopy(
                 temp_hand, Tail(todo),
                 IF winning_tiles # <<>>
                 THEN options \cup {[discard |-> TileStr(discard_tile),
                                     can_win_with |-> winning_tiles]}
                 ELSE options)

(* The for loop of _find_ting over the list object of the hand: each       *)
(* iteration copies the hand, removes the discard from the copy and asks   *)
(* _check_winning_tiles about the copy; the hand itself is passed on as it *)
(* is.  todo holds the tiles of set(hand) still to visit.                  *)
RECURSIVE FindTingLoop(_, _, _)
FindTingLoop(hand_list, todo, options) ==
    IF todo = <<>>
    THEN [hand |-> hand_list, options |-> options]
    ELSE LET discard_tile == Head(todo)
             temp_hand == RemoveFirst(hand_list, discard_tile)
             winning_tiles == CheckWinningTiles(temp_hand)
         IN  FindTingLoop(
                 hand_list, Tail(todo),
                 IF winning_tiles # <<>>
                 THEN options \cup {[discard |-> TileStr(discard_tile),
                                     can_win_with |-> winning_tiles]}
                 ELSE options)

(* One call of _find_ting on the list h, visiting set(h) in the order      *)
(* given: the list after the call and the ting_info returned.              *)
FindTingRun(h, order) ==
    LET run == FindTingLoop(h, order, {})
    IN  [hand |-> run.hand,
         ting_info |->
            [is_ting |-> run.options # {},
             ting_tiles |->
                UNION {{o.can_win_with[i] : i \in 1..Len(o.can_win_with)} :
                          o \in run.options},
             discard_options |-> run.options]]

(* HandAnalyzer.analyze: the hand is sorted and _find_ting runs on the     *)
(* sorted hand.  The groups by suit and the pairs, triplets, sequences and *)
(* isolated tiles of the summary are not read by the engine and are left   *)
(* out.                                                                    *)
Analyze(h) ==
    LET sorted_hand == Sorted(h)
    IN  [sorted_hand |-> [i \in 1..Len(sorted_hand) |-> TileStr(sorted_hand[i])],
         ting_info |-> FindTing(sorted_hand)]

----------------------------------------------------------------------------
(* _find_ting on its own: the hands a player holds before and after a      *)
(* draw, 13 and 14 tiles of NumKinds denominations.                        *)

TingHands == {h \in HarnessHands : Len(h) \in {HAND_SIZE, HAND_SIZE + 1}}

TingInit ==
    /\ GameInit
    /\ fn_pc = "input"
    /\ fn_hand \in TingHands
    /\ fn_melds = <<>>
    /\ fn_win_tile = NoTile
    /\ fn_lack = "None"
    /\ fn_tile = NoTile
    /\ fn_arg = "None"
    /\ fn_result = [is_ting |-> FALSE, ting_tiles |-> {}, discard_options |-> {}]

CallFindTing ==
    /\ fn_pc = "input"
    /\ fn_result' = FindTing(fn_hand)
    /\ fn_pc' = "done"
    /\ UNCHANGED <<fn_hand, fn_melds, fn_win_tile, fn_lack, fn_tile, fn_arg>>
    /\ UNCHANGED gameVars

TingNext == CallFindTing

TingSpec == TingInit /\ [][TingNext]_vars

----------------------------------------------------------------------------
(* The analysis a player asks for in decide_action and choose_lack:        *)
(* hand_analyzer.analyze(self.hand), for a player with a lack suit and     *)
(* with melds.  A player with m melds holds 13 - 3m tiles before the draw  *)
(* and 14 - 3m after it.                                                   *)

AnalyzeMelds == {<<>>, <<Meld("PONG", Copies(Tiao(9), 3))>>}

AnalyzeInit ==
    /\ GameInit
    /\ fn_pc = "input"
    /\ fn_melds \in AnalyzeMelds
    /\ fn_hand \in {h \in HarnessHands :
                      Len(h) \in {HAND_SIZE - 3 * Len(fn_melds),
                                  HAND_SIZE + 1 - 3 * Len(fn_melds)}}
    /\ fn_win_tile = NoTile
    /\ fn_lack \in Suits
    /\ fn_tile = NoTile
    /\ fn_arg = "None"
    /\ fn_result = [sorted_hand |-> <<>>,
                    ting_info |-> [is_ting |-> FALSE, ting_tiles |-> {},
                                   discard_options |-> {}]]

CallAnalyze ==
    /\ fn_pc = "input"
    /\ fn_result' = Analyze(fn_hand)
    /\ fn_pc' = "done"
    /\ UNCHANGED <<fn_hand, fn_melds, fn_win_tile, fn_lack, fn_tile, fn_arg>>
    /\ UNCHANGED gameVars

AnalyzeNext == CallAnalyze

AnalyzeSpec == AnalyzeInit /\ [][AnalyzeNext]_vars

----------------------------------------------------------------------------
(* _find_ting called twice on the same list.  The order in which a call    *)
(* visits set(hand) is not fixed: a call takes the ascending or the        *)
(* descending order.  fn_result collects the ting_info of the calls.       *)

TwiceInit ==
    /\ GameInit
    /\ fn_pc = "input"
    /\ fn_hand \in TingHands
    /\ fn_melds = <<>>
    /\ fn_win_tile = NoTile
    /\ fn_lack = "None"
    /\ fn_tile = NoTile
    /\ fn_arg = "None"
    /\ fn_result = <<>>

CallFindTingAgain ==
    /\ fn_pc \in {"input", "once"}
    /\ \E order \in {Ascending({fn_hand[i] : i \in 1..Len(fn_hand)}),
                     Reverse(Ascending({fn_hand[i] : i \in 1..Len(fn_hand)}))} :
          LET run == FindTingRun(fn_hand, order)
          IN  /\ fn_hand' = run.hand
              /\ fn_result' = Append(fn_result, run.ting_info)
    /\ fn_pc' = IF fn_pc = "input" THEN "once" ELSE "twice"
    /\ UNCHANGED <<fn_melds, fn_win_tile, fn_lack, fn_tile, fn_arg>>
    /\ UNCHANGED gameVars

TwiceNext == CallFindTingAgain

TwiceSpec == TwiceInit /\ [][TwiceNext]_vars

----------------------------------------------------------------------------
(* Meld(meld_type, tiles) on its own: every meld type with every list of   *)
(* up to MaxMeldLen tiles of two denominations.  fn_arg is the meld type,  *)
(* fn_hand the list of tiles; fn_result is the outcome of the constructor  *)
(* and what is_concealed returns on the meld built.                        *)

MeldTileLists ==
    UNION {[1..n -> {KindTile(1), KindTile(2)}] : n \in 0..MaxMeldLen}

MeldInit ==
    /\ GameInit
    /\ fn_pc = "input"
    /\ fn_hand \in MeldTileLists
    /\ fn_melds = <<>>
    /\ fn_win_tile = NoTile
    /\ fn_lack = "None"
    /\ fn_tile = NoTile
    /\ fn_arg \in MeldTypes
    /\ fn_result = [raised |-> FALSE, value |-> NoMeld, is_concealed |-> FALSE]

CallNewMeld ==
    /\ fn_pc = "input"
    /\ LET built == NewMeld(fn_arg, fn_hand)
       IN  fn_result' = [raised |-> built.raised, value |-> built.value,
                         is_concealed |-> IF built.raised THEN FALSE
                                          ELSE IsConcealed(built.value)]
    /\ fn_pc' = "done"
    /\ UNCHANGED <<fn_hand, fn_melds, fn_win_tile, fn_lack, fn_tile, fn_arg>>
    /\ UNCHANGED gameVars

MeldNext == CallNewMeld

MeldSpec == MeldInit /\ [][MeldNext]_vars

----------------------------------------------------------------------------
(* Tile.from_string on its own: every string of up to MaxStrLen characters *)
(* over the rank names, the suit names and one other character.            *)

Chars ==
    {RANK_NAMES[r] : r \in RANKS} \cup {SUIT_NAMES[s] : s \in Suits} \cup {"x"}

TileStrings == UNION {[1..n -> Chars] : n \in 0..MaxStrLen}

ParseInit ==
    /\ GameInit
    /\ fn_pc = "input"
    /\ fn_hand = <<>>
    /\ fn_melds = <<>>
    /\ fn_win_tile = NoTile
    /\ fn_lack = "None"
    /\ fn_tile = NoTile
    /\ fn_arg \in TileStrings
    /\ fn_result = [raised |-> FALSE, value |-> NoTile]

CallFromString ==
    /\ fn_pc = "input"
    /\ fn_result' = FromString(fn_arg)
    /\ fn_pc' = "done"
    /\ UNCHANGED <<fn_hand, fn_melds, fn_win_tile, fn_lack, fn_tile, fn_arg>>
    /\ UNCHANGED gameVars

ParseNext == CallFromString

ParseSpec == ParseInit /\ [][ParseNext]_vars

----------------------------------------------------------------------------
(* Tile.__eq__ and Tile.__lt__ on their own: fn_hand holds three tiles     *)
(* t1, t2, t3 and fn_result what the comparisons between them return.      *)

CompareInit ==
    /\ GameInit
    /\ fn_pc = "input"
    /\ fn_hand \in [1..3 -> Tiles]
    /\ fn_melds = <<>>
    /\ fn_win_tile = NoTile
    /\ fn_lack = "None"
    /\ fn_tile = NoTile
    /\ fn_arg = "None"
    /\ fn_result = [eq |-> FALSE, lt |-> [i \in 1..3 |-> [j \in 1..3 |-> FALSE]]]

CallCompare ==
    /\ fn_pc = "input"
    /\ fn_result' = [eq |-> TileEq(fn_hand[1], fn_hand[2]),
                     lt |-> [i \in 1..3 |->
                               [j \in 1..3 |-> TileLt(fn_hand[i], fn_hand[j])]]]
    /\ fn_pc' = "done"
    /\ UNCHANGED <<fn_hand, fn_melds, fn_win_tile, fn_lack, fn_tile, fn_arg>>
    /\ UNCHANGED gameVars

CompareNext == CallCompare

CompareSpec == CompareInit /\ [][CompareNext]_vars

----------------------------------------------------------------------------
(* is_valid_action and is_winning_hand called twice on the same objects.   *)
(* fn_arg is the action type, or "is_winning_hand" for the direct call on  *)
(* fn_hand and fn_melds; fn_result holds the snapshot object given to      *)
(* is_valid_action and the values returned so far.                         *)

PureHands == {h \in HarnessHands : Len(h) = HAND_SIZE}

PureInit ==
    /\ GameInit
    /\ fn_pc = "input"
    /\ fn_hand \in PureHands
    /\ fn_melds \in AnalyzeMelds
    /\ fn_win_tile \in {NoTile, KindTile(1), KindTile(4)}
    /\ fn_lack \in {"None", "TIAO"}
    /\ fn_tile = KindTile(1)
    /\ fn_arg \in ActionTypes \cup {"is_winning_hand"}
    /\ fn_result = [game_state |-> HarnessGameState, results |-> <<>>]

CallIsValidActionAgain ==
    /\ fn_pc \in {"input", "once"}
    /\ fn_arg \in ActionTypes
    /\ LET action == Action(fn_arg,
                            IF fn_arg \in {"DISCARD", "GANG"} THEN fn_tile
                            ELSE NoTile,
                            IF fn_arg = "LACK" THEN "WAN" ELSE "None")
           run == IsValidActionRun(action, fn_result.game_state)
       IN  fn_result' = [game_state |-> run.game_state,
                         results |-> Append(fn_result.results, run.result)]
    /\ fn_pc' = IF fn_pc = "input" THEN "once" ELSE "twice"
    /\ UNCHANGED <<fn_hand, fn_melds, fn_win_tile, fn_lack, fn_tile, fn_arg>>
    /\ UNCHANGED gameVars

CallIsWinningHandAgain ==
    /\ fn_pc \in {"input", "once"}
    /\ fn_arg = "is_winning_hand"
    /\ LET run == IsWinningHandRun(fn_hand, fn_melds, fn_win_tile, fn_lack)
       IN  /\ fn_hand' = run.hand
           /\ fn_melds' = run.melds
           /\ fn_result' = [fn_result EXCEPT
                              !.results = Append(@, run.result)]
    /\ fn_pc' = IF fn_pc = "input" THEN "once" ELSE "twice"
    /\ UNCHANGED <<fn_win_tile, fn_lack, fn_tile, fn_arg>>
    /\ UNCHANGED gameVars

PureNext == CallIsValidActionAgain \/ CallIsWinningHandAgain

PureSpec == PureInit /\ [][PureNext]_vars

----------------------------------------------------------------------------
(* Properties.                                                             *)

RECURSIVE Flatten(_)
Flatten(seqs) == IF seqs = <<>> THEN <<>> ELSE Head(seqs) \o Flatten(Tail(seqs))

(* The tiles of the wall, of the four hands and of the revealed melds, and *)
(* the tile names of the four discard logs.                                *)
TilesHeld ==
    wall \o Flatten([i \in 1..NumPlayers |-> hand[i - 1]])
         \o Flatten([i \in 1..NumPlayers |->
                       Flatten([k \in 1..Len(melds[i - 1]) |->
                                  melds[i - 1][k].tiles])])
NamesLogged == Flatten([i \in 1..NumPlayers |-> game_state.discards[i - 1]])

(* A step in which decide_action returns and the action is processed.      *)
DecideStep == pc = "decide" /\ pc' # "decide"

(* C1: from the end of the deal on, every one of the 27 denominations has  *)
(* exactly 4 copies in the wall, the hands, the discard logs and the melds *)
(* together.                                                               *)
C1_TileConservation ==
    pc # "init" =>
        \A held \in {TilesHeld} : \A logged \in {NamesLogged} :
            \A t \in Tiles :
                Count(held, t) + Count(logged, TileStr(t))
                    = TOTAL_TILES_PER_RANK

C1_Witness ==
    /\ phase = "PLAYING"
    /\ Len(wall) < Len(BuildWall) - HAND_SIZE * NumPlayers - 1
    /\ \E p \in Players : game_state.discards[p] # <<>>

(* The hand h splits into exactly MeldsPerHand - m triplets of identical   *)
(* tiles and one pair of identical tiles, no tile left over.               *)
Partitionable(h, m) ==
    LET kinds == {h[i] : i \in 1..Len(h)}
    IN  \E pair \in kinds : \E triplets \in SUBSET kinds :
           /\ Cardinality(triplets) = MeldsPerHand - m
           /\ \A k \in kinds :
                 Count(h, k) = (IF k \in triplets THEN 3 ELSE 0)
                                  + (IF k = pair THEN 2 ELSE 0)

(* C2: for a hand of at most 4 copies per denomination and 0..4 revealed   *)
(* melds, the decomposer returns true exactly when the hand splits into    *)
(* (4 - m) triplets and one pair; otherwise it returns false.              *)
C2_DecomposerCorrect ==
    fn_pc = "done" => (fn_result <=> Partitionable(fn_hand, Len(fn_melds)))

C2_Witness ==
    /\ fn_pc = "done"
    /\ fn_melds = <<>>
    /\ Len(fn_hand) = 3 * MeldsPerHand + 2
    /\ fn_result

(* C3: is_winning_hand returns false whenever the hand or the winning tile *)
(* holds a tile of the lack suit.                                          *)
C3_LackSuitExcluded ==
    fn_pc = "done" =>
        (((\E i \in 1..Len(fn_hand) : fn_hand[i].suit = fn_lack)
            \/ (fn_win_tile # NoTile /\ fn_win_tile.suit = fn_lack))
         => ~fn_result)

(* a hand that decomposes once the winning tile is added, is rejected, and *)
(* has the winning tile in the lack suit                                   *)
C3_Witness ==
    /\ fn_pc = "done"
    /\ fn_win_tile # NoTile
    /\ fn_win_tile.suit = fn_lack
    /\ Partitionable(Append(fn_hand, fn_win_tile), Len(fn_melds))
    /\ ~fn_result

(* C4: a Discard(t) returned in Play is applied exactly when t is in the   *)
(* hand the player holds when the action is checked, the tile drawn this   *)
(* turn included.                                                          *)
C4_DiscardAcceptedIffHeld ==
    [][(DecideStep /\ turn_action'.action_type = "DISCARD")
         => ((game_state'.last_action.action = "DISCARD")
               <=> Contains(hand[current_player_id], turn_action'.tile))]_vars

(* C5: a recorded winner holds a hand that, with the winning tile, has no  *)
(* tile of the winner's lack suit and decomposes with the winner's melds.  *)
C5_WinSoundness ==
    \A i \in 1..Len(winners) :
        LET w == winners[i]
            full_hand == IF game_state.last_discard # NoTile
                         THEN Append(hand[w], game_state.last_discard)
                         ELSE hand[w]
        IN  /\ lack_suit[w] # "None"
            /\ \A k \in 1..Len(full_hand) : full_hand[k].suit # lack_suit[w]
            /\ CheckBasicWinningPattern(full_hand, melds[w])

(* C6: an action that fails the legality check is replaced by Pass: the    *)
(* turn moves to the next seat and the last action reads Pass, and the     *)
(* hands, the wall, the discard logs, the melds, the last discarded tile   *)
(* and the winners stay as they were.                                      *)
C6_IllegalActionReplacedByPass ==
    [][(DecideStep /\ ~IsValidAction(turn_action', game_state))
         => /\ current_player_id' = (current_player_id + 1) % NumPlayers
            /\ game_state'.last_action =
                  [player_id |-> current_player_id, action |-> "PASS",
                   tile |-> <<>>]
            /\ hand' = hand
            /\ wall' = wall
            /\ melds' = melds
            /\ game_state'.discards = game_state.discards
            /\ game_state'.melds = game_state.melds
            /\ game_state'.last_discard = game_state.last_discard
            /\ winners' = winners]_vars

C6_Witness ==
    /\ pc = "turn"
    /\ turn_action.action_type = "HU"
    /\ game_state.last_action.action = "PASS"

(* C7: whatever the decision source returns, the round reaches the phase   *)
(* ENDED.                                                                  *)
C7_RoundTerminates == <>(phase = "ENDED")

C7_Witness ==
    /\ pc = "done"
    /\ phase = "ENDED"
    /\ winners = <<>>
    /\ wall = <<>>

(* C8: the phase only steps INIT -> LACK_SELECTION -> PLAYING -> ENDED,    *)
(* and never leaves ENDED.                                                 *)
C8_PhaseOrder ==
    [][phase' # phase
         => <<phase, phase'>> \in {<<"INIT", "LACK_SELECTION">>,
                                   <<"LACK_SELECTION", "PLAYING">>,
                                   <<"PLAYING", "ENDED">>}]_vars

C8_Witness == pc = "done" /\ phase = "ENDED" /\ winners # <<>>

(* C9: when a Discard or a Pass is applied in Play, the current player     *)
(* becomes (previous + 1) mod 4 and the snapshot's current player is the   *)
(* same.                                                                   *)
C9_TurnOrder ==
    [][(DecideStep /\ game_state'.last_action.action \in {"DISCARD", "PASS"})
         => /\ current_player_id' = (current_player_id + 1) % NumPlayers
            /\ game_state'.current_player_id = current_player_id']_vars

C9_Witness ==
    /\ pc = "turn"
    /\ game_state.last_action.action = "DISCARD"
    /\ game_state.last_action.player_id = NumPlayers - 1
    /\ current_player_id = 0

(* C10: every concealed hand holds between 0 and 14 tiles.                 *)
C10_HandSizeBound ==
    \A p \in Players : Len(hand[p]) <= HAND_SIZE + 1

(* C11: once the for loop of the suit declaration has ended, no player's   *)
(* lack suit changes, and a LACK action returned in Play is replaced by    *)
(* Pass.                                                                   *)
C11_LackSuitImmutable ==
    [][/\ (pc \notin {"init", "dealt", "lack"}) => lack_suit' = lack_suit
       /\ (DecideStep /\ turn_action'.action_type = "LACK")
             => game_state'.last_action.action = "PASS"]_vars

(* a LACK of WAN returned in Play by a player whose lack suit is TIAO      *)
C11_Witness ==
    /\ pc = "turn"
    /\ turn_action = Action("LACK", NoTile, "WAN")
    /\ game_state.last_action.action = "PASS"
    /\ lack_suit[game_state.last_action.player_id] = "TIAO"

(* C12: the suit declaration asks the seats 0, 1, 2, 3 in this order, each *)
(* once; a returned LACK that carries a suit sets that suit for the seat   *)
(* asked, any other returned action sets TIAO, no other seat's suit        *)
(* changes, and when the loop ends every seat has a lack suit.             *)
C12_SuitDeclaration ==
    [][/\ (pc = "dealt" /\ pc' = "lack") => lack_index' = 0
       /\ (pc = "lack" /\ <<pc, lack_index>>' # <<pc, lack_index>>) =>
             /\ lack_index \in Players
             /\ lack_index' = lack_index + 1
             /\ pc' = IF lack_index = NumPlayers - 1 THEN "lack_done"
                      ELSE "lack"
             /\ lack_suit' =
                   [lack_suit EXCEPT ![lack_index] =
                       IF /\ turn_action'.action_type = "LACK"
                          /\ turn_action'.suit # "None"
                       THEN turn_action'.suit
                       ELSE "TIAO"]
       /\ pc' = "lack_done" => \A p \in Players : lack_suit'[p] # "None"]_vars

(* seat 0 declared WAN, and seat 3, asked last, returned a DISCARD and got *)
(* the default                                                             *)
C12_Witness ==
    /\ pc = "lack_done"
    /\ lack_suit[0] = "WAN"
    /\ turn_action.action_type = "DISCARD"
    /\ lack_suit[NumPlayers - 1] = "TIAO"

(* A step in which choose_lack returns.                                    *)
LackStep == pc = "lack" /\ <<pc, lack_index>>' # <<pc, lack_index>>

(* What a step leaves alone when it applies Pass or sets a lack suit.      *)
TilesUntouched ==
    /\ hand' = hand
    /\ wall' = wall
    /\ melds' = melds
    /\ winners' = winners
    /\ game_state'.discards = game_state.discards
    /\ game_state'.last_discard = game_state.last_discard

(* C13: a request that raises, or a response no Action can be built from,  *)
(* leaves the round as Pass (in Play) or LACK of TIAO (in the suit         *)
(* declaration) would: the same engine and player state results, the round *)
(* goes on to its next step, and nothing but the effect of that default    *)
(* action changes.                                                         *)
C13_FailuresAbsorbed ==
    [][/\ pc = "decide" =>
             \A r \in MalformedResponses \cup {SourceFailure} :
                 /\ DecideAction(r) = PassAction
                 /\ ProcessAction(Self, DecideAction(r))
                       = ProcessAction(Self, PassAction)
       /\ pc = "lack" =>
             \A r \in MalformedResponses \cup {SourceFailure} :
                 LackSelectionStep(Self, lack_index, r)
                    = LackSelectionStep(Self, lack_index,
                                        Action("LACK", NoTile, "TIAO"))
       /\ (DecideStep /\ answered' = answered) =>
             /\ turn_action' = PassAction
             /\ game_state'.last_action =
                   [player_id |-> current_player_id, action |-> "PASS",
                    tile |-> <<>>]
             /\ current_player_id' = (current_player_id + 1) % NumPlayers
             /\ pc' \in {"turn", "round_over"}
             /\ lack_suit' = lack_suit
             /\ TilesUntouched
       /\ (LackStep /\ answered' = answered) =>
             /\ lack_suit' = [lack_suit EXCEPT ![lack_index] = "TIAO"]
             /\ pc' \in {"lack", "lack_done"}
             /\ current_player_id' = current_player_id
             /\ TilesUntouched]_vars

(* Play after six failed requests: four in the suit declaration, two in    *)
(* Play                                                                    *)
C13_Witness ==
    /\ pc = "turn"
    /\ answered = 0
    /\ turn_count = 2
    /\ turn_action = PassAction
    /\ \A p \in Players : lack_suit[p] = "TIAO"

(* C14: a PONG returned in Play is applied exactly when a tile has been    *)
(* discarded, the acting player holds at least 2 copies of it, and the     *)
(* discard was not the acting player's own.                                *)
C14_PongLegality ==
    [][(DecideStep /\ turn_action'.action_type = "PONG")
         => ((game_state'.last_action.action = "PONG")
               <=> /\ game_state.last_discard # NoTile
                   /\ Count(hand[current_player_id],
                            game_state.last_discard) >= 2
                   /\ last_discarder # current_player_id)]_vars

(* C15: the legality check accepts a GANG of tile t exactly when the hand  *)
(* holds 4 copies of t, or holds 3 copies and t is the last discarded      *)
(* tile, or holds 1 copy and the player owns a PONG meld of t; a GANG      *)
(* without a tile is rejected.                                             *)
C15_KongLegality ==
    fn_pc = "done" =>
        (fn_result <=>
            /\ fn_tile # NoTile
            /\ \/ Count(fn_hand, fn_tile) = 4
               \/ Count(fn_hand, fn_tile) = 3 /\ fn_win_tile = fn_tile
               \/ /\ Count(fn_hand, fn_tile) = 1
                  /\ \E i \in 1..Len(fn_melds) :
                        fn_melds[i] = Meld("PONG", Copies(fn_tile, 3)))

(* an added kong accepted with a different tile as the last discard        *)
C15_Witness ==
    /\ fn_pc = "done"
    /\ fn_result
    /\ Count(fn_hand, fn_tile) = 1
    /\ fn_win_tile \notin {fn_tile, NoTile}

(* C16: when a legal PONG or GANG is applied in play, the claimed tiles    *)
(* leave the claimant's hand (2 for a PONG; 3 for a GANG of the last       *)
(* discard, 4 for a concealed GANG, 1 for an added GANG) and one meld of   *)
(* identical tiles (3 for a PONG, 4 for a GANG) is appended to the         *)
(* claimant's melds.                                                       *)
C16_MeldClaimsMutateState ==
    [][(DecideStep /\ game_state'.last_action.action \in {"PONG", "GANG"})
         => LET p == current_player_id
                kind == game_state'.last_action.action
                t == IF kind = "PONG" THEN game_state.last_discard
                     ELSE turn_action'.tile
            IN  /\ Len(melds'[p]) = Len(melds[p]) + 1
                /\ Front(melds'[p]) = melds[p]
                /\ Last(melds'[p]).tiles
                     = Copies(t, IF kind = "PONG" THEN 3 ELSE 4)
                /\ Count(hand'[p], t) < Count(hand[p], t)
                /\ Len(hand'[p]) < Len(hand[p])]_vars

(* C17: applying a HU appends the acting player to the winners and sets    *)
(* the phase to ENDED, and the loop of the playing phase is left; once a   *)
(* winner is recorded no tile is drawn and no action is applied (wall,     *)
(* hands, melds, winners and the recorded last action stay as they are),   *)
(* and the winners never hold more than one player.                        *)
C17_WinEffect ==
    [][/\ (DecideStep /\ game_state'.last_action.action = "HU")
            => /\ winners' = Append(winners, current_player_id)
               /\ phase' = "ENDED"
               /\ pc' = "round_over"
       /\ winners # <<>>
            => /\ wall' = wall
               /\ hand' = hand
               /\ melds' = melds
               /\ winners' = winners
               /\ game_state'.last_action = game_state.last_action
               /\ pc' \in {"round_over", "done"}
       /\ Len(winners') <= 1]_vars

(* the round is left by a HU of the player that is now the only winner     *)
C17_Witness ==
    /\ pc = "round_over"
    /\ game_state.last_action.action = "HU"
    /\ winners = <<current_player_id>>
    /\ phase = "ENDED"

(* The sequence xs is an initial part of the sequence ys.                  *)
IsPrefix(xs, ys) ==
    /\ Len(xs) <= Len(ys)
    /\ \A i \in 1..Len(xs) : xs[i] = ys[i]

(* C18: applying a DISCARD of tile t takes exactly one copy of t out of    *)
(* the acting player's hand, appends t to the end of that player's discard *)
(* log and makes t the last discard; the wall, the other players' hands    *)
(* and discard logs, the melds and the winners stay as they are; and no    *)
(* step removes or reorders earlier entries of a discard log.              *)
C18_DiscardEffect ==
    [][/\ (DecideStep /\ game_state'.last_action.action = "DISCARD")
            => LET p == current_player_id
                   t == turn_action'.tile
               IN  /\ t # NoTile
                   /\ \A u \in Tiles :
                        Count(hand'[p], u)
                          = Count(hand[p], u) - (IF u = t THEN 1 ELSE 0)
                   /\ Len(hand'[p]) = Len(hand[p]) - 1
                   /\ game_state'.discards[p]
                        = Append(game_state.discards[p], TileStr(t))
                   /\ game_state'.last_discard = t
                   /\ wall' = wall
                   /\ \A q \in Players \ {p} :
                        /\ hand'[q] = hand[q]
                        /\ game_state'.discards[q] = game_state.discards[q]
                   /\ melds' = melds
                   /\ winners' = winners
       /\ \A q \in Players :
             IsPrefix(game_state.discards[q], game_state'.discards[q])]_vars

(* a player's second discard has been applied                              *)
C18_Witness ==
    /\ pc = "turn"
    /\ game_state.last_action.action = "DISCARD"
    /\ \E p \in Players :
          /\ Len(game_state.discards[p]) = 2
          /\ game_state.last_action.player_id = p
          /\ TileStr(game_state.last_discard) = Last(game_state.discards[p])

(* C19: when the deal is over, the wall was built from 4 copies of each of *)
(* the 27 tiles (108 tiles), every one of the 4 players holds 13 tiles, 56 *)
(* tiles are left in the wall, and the snapshot's wall_remaining is 56.    *)
C19_Deal ==
    pc = "dealt" =>
        /\ Cardinality(Tiles) = 27
        /\ Len(BuildWall) = 108
        /\ \A t \in Tiles : Count(BuildWall, t) = 4
        /\ Cardinality(Players) = 4
        /\ \A p \in Players : Len(hand[p]) = 13
        /\ Len(wall) = 56
        /\ game_state.wall_remaining = 56
        /\ \A held \in {TilesHeld} :
              /\ Len(held) = 108
              /\ \A t \in Tiles : Count(held, t) = 4

(* the deal is over and no suit has been declared                          *)
C19_Witness ==
    /\ pc = "dealt"
    /\ phase = "INIT"
    /\ wall # <<>>
    /\ \A p \in Players : hand[p] # <<>> /\ lack_suit[p] = "None"

(* The names of the tiles w, among all 27, for which                       *)
(* _check_basic_winning_pattern with no melds accepts h without one copy   *)
(* of d and with w.                                                        *)
DecomposerWinningSet(h, d) ==
    {TileStr(w) : w \in {t \in Tiles :
        CheckBasicWinningPattern(Append(RemoveFirst(h, d), t), <<>>)}}

(* The set of winning tiles _find_ting reports for the discard named d.    *)
ReportedWinningSet(info, d) ==
    UNION {{o.can_win_with[i] : i \in 1..Len(o.can_win_with)} :
              o \in {x \in info.discard_options : x.discard = d}}

(* C20: for every hand and every distinct tile d of it, the winning tiles  *)
(* _find_ting reports for the discard d are the tiles w, among all 27, for *)
(* which the decomposer with no melds accepts the hand without d and with  *)
(* w; d is listed exactly when this set is not empty; is_ting holds        *)
(* exactly when some discard is listed; and ting_tiles is the union of the *)
(* listed sets.                                                            *)
C20_TingAgreesWithDecomposer ==
    fn_pc = "done" =>
        /\ \A d \in {fn_hand[i] : i \in 1..Len(fn_hand)} :
              \A expected \in {DecomposerWinningSet(fn_hand, d)} :
                 /\ ReportedWinningSet(fn_result, TileStr(d)) = expected
                 /\ (\E o \in fn_result.discard_options :
                        o.discard = TileStr(d)) <=> expected # {}
        /\ fn_result.is_ting <=> fn_result.discard_options # {}
        /\ fn_result.ting_tiles
             = UNION {ReportedWinningSet(fn_result, o.discard) :
                         o \in fn_result.discard_options}

(* The hand h without one copy of d and with w.                            *)
Swap(h, d, w) == Append(RemoveFirst(h, d), w)

(* C21: the analysis of a player's hand reports no winning tile w for a    *)
(* discard d when the hand without d and with w holds a tile of the        *)
(* player's lack suit; and a tile w that completes the hand without d to   *)
(* the triplets still needed beside the player's melds and one pair, with  *)
(* no tile of the lack suit and no tile more than 4 times, is reported.    *)
C21_TingRespectsLackAndMelds ==
    fn_pc = "done" =>
        \A d \in {fn_hand[i] : i \in 1..Len(fn_hand)} : \A w \in Tiles :
            \A reported \in {TileStr(w) \in
                    ReportedWinningSet(fn_result.ting_info, TileStr(d))} :
            \A full \in {Swap(fn_hand, d, w)} :
                /\ reported => \A i \in 1..Len(full) : full[i].suit # fn_lack
                /\ ( /\ \A i \in 1..Len(full) : full[i].suit # fn_lack
                     /\ Count(full, w) <= TOTAL_TILES_PER_RANK
                     /\ CheckBasicWinningPattern(full, fn_melds) )
                   => reported

C23_MeldValidity ==
    fn_pc = "done" =>
        LET all_equal == \A i, j \in 1..Len(fn_hand) :
                            /\ fn_hand[i].suit = fn_hand[j].suit
                            /\ fn_hand[i].rank = fn_hand[j].rank
        IN  /\ ~fn_result.raised
                 <=> \/ fn_arg = "PONG" /\ Len(fn_hand) = 3 /\ all_equal
                     \/ /\ fn_arg \in {"MING_GANG", "AN_GANG", "BU_GANG"}
                        /\ Len(fn_hand) = 4
                        /\ all_equal
            /\ ~fn_result.raised
                 => /\ fn_result.value.meld_type = fn_arg
                    /\ fn_result.value.tiles = fn_hand
                    /\ fn_result.is_concealed <=> fn_arg = "AN_GANG"

(* a concealed gang has been built                                         *)
C23_Witness ==
    /\ fn_pc = "done"
    /\ ~fn_result.raised
    /\ fn_arg = "AN_GANG"
    /\ Len(fn_result.value.tiles) = 4
    /\ fn_result.is_concealed

(* C24: for each of the 27 tiles t, from_string(str(t)) is t; and          *)
(* from_string raises for every string that has not exactly 2 characters,  *)
(* or whose first character is no rank name, or whose second character is  *)
(* no suit name.                                                           *)
C24_TileRoundTrip ==
    fn_pc = "done" =>
        /\ \A t \in Tiles :
              fn_arg = TileStr(t) => ~fn_result.raised /\ fn_result.value = t
        /\ ( \/ Len(fn_arg) # 2
             \/ fn_arg[1] \notin {RANK_NAMES[r] : r \in RANKS}
             \/ fn_arg[2] \notin {SUIT_NAMES[s] : s \in Suits} )
           => fn_result.raised

(* the name of 9-tiao has been parsed                                      *)
C24_Witness ==
    /\ fn_pc = "done"
    /\ fn_arg = TileStr(Tiao(9))
    /\ fn_result = [raised |-> FALSE, value |-> Tiao(9)]

(* The place of a suit in the order WAN, TONG, TIAO.                       *)
SuitIndex(s) == CHOOSE i \in 1..Len(SUITS_LIST) : SUITS_LIST[i] = s

(* C25: t1 == t2 exactly when suit and rank agree; t1 < t2 exactly when    *)
(* the pair (suit index, rank) of t1 is lexicographically below that of    *)
(* t2; of two different tiles exactly one is below the other; and < is     *)
(* transitive.                                                             *)
C25_TileOrder ==
    fn_pc = "done" =>
        /\ fn_result.eq
             <=> (fn_hand[1].suit = fn_hand[2].suit
                    /\ fn_hand[1].rank = fn_hand[2].rank)
        /\ \A i, j \in 1..3 :
              /\ fn_result.lt[i][j]
                   <=> \/ SuitIndex(fn_hand[i].suit) < SuitIndex(fn_hand[j].suit)
                       \/ /\ SuitIndex(fn_hand[i].suit) = SuitIndex(fn_hand[j].suit)
                          /\ fn_hand[i].rank < fn_hand[j].rank
              /\ fn_hand[i] # fn_hand[j]
                   => (fn_result.lt[i][j] <=> ~fn_result.lt[j][i])
              /\ fn_hand[i] = fn_hand[j] => ~fn_result.lt[i][j]
        /\ (fn_result.lt[1][2] /\ fn_result.lt[2][3]) => fn_result.lt[1][3]

(* a tile of a lower suit and a higher rank is below one of a higher suit  *)
C25_Witness ==
    /\ fn_pc = "done"
    /\ fn_hand[1] = Wan(9)
    /\ fn_hand[2] = Tong(1)
    /\ fn_hand[3] = Tiao(1)
    /\ fn_result.lt[1][2]
    /\ fn_result.lt[1][3]
    /\ ~fn_result.eq

(* C26: in play, when the hand the current player holds after the draw,    *)
(* with the tile drawn as the winning tile, is a winning hand without a    *)
(* tile of the lack suit, a HU returned on that turn is applied: the       *)
(* player is recorded as the winner and the phase is ENDED.                *)
C26_SelfDrawnWin ==
    [][( /\ DecideStep
         /\ turn_action'.action_type = "HU"
         /\ hand[current_player_id] # <<>>
         /\ IsWinningHand(Front(hand[current_player_id]),
                          melds[current_player_id],
                          Last(hand[current_player_id]),
                          lack_suit[current_player_id]) )
         => /\ game_state'.last_action.action = "HU"
            /\ winners' = <<current_player_id>>
            /\ phase' = "ENDED"]_vars

C28_AtMost56Turns ==
    /\ turn_count < 56
    /\ turn_count < max_turns
    /\ pc = "turn" => wall # <<>> /\ turn_count + Len(wall) = 56
    /\ pc = "decide" => turn_count + 1 + Len(wall) = 56
    /\ (pc \in {"round_over", "done"} /\ winners = <<>>)
          => wall = <<>> /\ turn_count = 55
    /\ (wall = <<>> /\ pc # "init") => pc \in {"decide", "round_over", "done"}

(* the loop has been left after the turn that drew the last tile           *)
C28_Witness ==
    /\ pc = "round_over"
    /\ wall = <<>>
    /\ winners = <<>>
    /\ turn_count = 55
    /\ game_state.wall_remaining = 0

(* C29: in play, an action that get_possible_actions offers the current    *)
(* player for the hand held after the draw passes is_valid_action when the *)
(* player returns it on that turn, and is the action applied.              *)
C29_OfferedActionsLegal ==
    [][( /\ DecideStep
         /\ turn_action' \in GetPossibleActions(hand[current_player_id],
                                                game_state) )
         => /\ IsValidAction(turn_action', game_state)
            /\ game_state'.last_action.action = turn_action'.action_type]_vars

(* C30: whenever a HU is applied with the last discard counted as the      *)
(* winning tile, that tile was discarded by another player than the        *)
(* winner.                                                                 *)
C30_NoWinOnOwnDiscard ==
    [][( /\ DecideStep
         /\ game_state'.last_action.action = "HU"
         /\ game_state.last_discard # NoTile )
         => last_discarder # current_player_id]_vars

=============================================================================
